---- MODULE Spec2Model ----
(***************************************************************************)
(* A model of io_import_vmd.py: the VMD (Vocaloid Motion Data) importer.   *)
(*                                                                         *)
(* Representation.                                                         *)
(*   - bytes are the integers 0..255, byte strings are sequences of them;  *)
(*   - text (str) is a sequence of code points;                            *)
(*   - a 32-bit float is represented by the integer it denotes; the        *)
(*     inputs are integer-valued floats, decoded from their IEEE-754 bits; *)
(*   - a quaternion is <<w, x, y, z>>;                                     *)
(*   - the stream `ofs` is read forward only, so its content is supplied   *)
(*     by the environment read by read: `pos` is the file position and     *)
(*     `eof` says that the file has been found to end before the bytes the *)
(*     format (with its own record counts) requires.                       *)
(***************************************************************************)
EXTENDS Integers, Sequences, FiniteSets, TLC

\* ------------------------------------------------------------------ bounds
\* Largest record count of a section in the input files.
MaxRecs == 2
\* Number of importVmd calls in a behaviour.
MaxImports == 2

\* ----------------------------------------------------------------- helpers
\* Python's max() of two and of three values.
Max2Last(a, b) == b
Max2(a, b) == IF a >= b THEN a ELSE b

Max3NoScene(a, b, c) == Max2(a, b)
Max3(a, b, c) == Max2(Max2(a, b), c)

\* An all-zero byte string of length n.
Zeros(n) == [k \in 1..n |-> 0]

\* ------------------------------------------------------------------ struct
\* A struct format is a sequence of fields <<code, count>>; "<" (no padding)
\* is implied.  "s": one byte string of `count` bytes; "I": `count` unsigned
\* 32-bit integers; "f": `count` 32-bit floats.
FmtU32    == << <<"I", 1>> >>
FmtHeader == << <<"s", 30>>, <<"s", 20>> >>
FmtBone   == << <<"s", 15>>, <<"I", 1>>, <<"f", 3>>, <<"f", 4>>, <<"s", 64>> >>
FmtFace   == << <<"s", 15>>, <<"I", 1>>, <<"f", 1>> >>

\* The format literals of skipVmdBone and skipVmdFace.
FmtBoneSkipNoCurve == << <<"s", 15>>, <<"I", 1>>, <<"f", 3>>, <<"f", 4>> >>
FmtBoneSkip == << <<"s", 15>>, <<"I", 1>>, <<"f", 3>>, <<"f", 4>>, <<"s", 64>> >>
FmtFaceSkip == << <<"s", 15>>, <<"I", 1>>, <<"f", 1>> >>

FieldSize(f) == IF f[1] = "s" THEN f[2] ELSE 4 * f[2]

\* struct.calcsize
RECURSIVE CalcSize(_)
CalcSize(fmt) ==
    IF fmt = <<>> THEN 0 ELSE FieldSize(Head(fmt)) + CalcSize(Tail(fmt))

\* Little-endian unsigned 32-bit integer (values below 2^31 in the inputs).
U32(b) == b[1] + 256 * b[2] + 65536 * b[3] + 16777216 * b[4]

\* Little-endian IEEE-754 binary32, for integer-valued floats.
F32(b) ==
    LET sign == b[4] \div 128
        e    == (b[4] % 128) * 2 + (b[3] \div 128)
        m    == (b[3] % 128) * 65536 + b[2] * 256 + b[1]
        mant == 8388608 + m
        mag  == IF e = 0 THEN 0
                ELSE IF e >= 150 THEN mant * 2^(e - 150)
                ELSE mant \div 2^(150 - e)
    IN  IF sign = 1 THEN 0 - mag ELSE mag

UnpackField(f, b) ==
    IF f[1] = "s" THEN << b >>
    ELSE [k \in 1..f[2] |->
            IF f[1] = "I" THEN U32(SubSeq(b, 4 * k - 3, 4 * k))
                          ELSE F32(SubSeq(b, 4 * k - 3, 4 * k))]

\* struct.unpack on a buffer of exactly CalcSize(fmt) bytes.
RECURSIVE Unpack(_, _)
Unpack(fmt, data) ==
    IF fmt = <<>> THEN <<>>
    ELSE LET n == FieldSize(Head(fmt))
         IN  UnpackField(Head(fmt), SubSeq(data, 1, n))
                \o Unpack(Tail(fmt), SubSeq(data, n + 1, Len(data)))

\* readPacked: ofs.read returned `data`; struct.unpack raises struct.error
\* unless the buffer has exactly the size of the format.
ReadPacked(fmt, data) ==
    IF Len(data) # CalcSize(fmt)
    THEN [err |-> "struct.error", val |-> <<>>]
    ELSE [err |-> "none", val |-> Unpack(fmt, data)]

\* ------------------------------------------------------------------ vmdStr
\* bytes.index(b"\0"): the 0-based index of the first NUL, -1 when absent
\* (where Python raises ValueError).
IndexOfNul(s) ==
    IF \E k \in 1..Len(s) : s[k] = 0
    THEN (CHOOSE k \in 1..Len(s) : s[k] = 0 /\ \A j \in 1..(k - 1) : s[j] # 0) - 1
    ELSE -1

IsLead(b)  == (b >= 129 /\ b <= 159) \/ (b >= 224 /\ b <= 252)
IsTrail(b) == (b >= 64 /\ b <= 126) \/ (b >= 128 /\ b <= 252)

\* str(bytes, "shift-jis"): ASCII bytes decode to themselves, 0xA1..0xDF to
\* the half-width katakana U+FF61.., a lead byte with its trail byte to one
\* character (named here by the byte pair, standing for its JIS X 0208
\* table entry); any other byte is a decode error.
RECURSIVE SjisDecode(_)
SjisDecode(b) ==
    IF b = <<>> THEN [ok |-> TRUE, text |-> <<>>]
    ELSE LET c == Head(b)
         IN  IF c <= 127
             THEN LET r == SjisDecode(Tail(b))
                  IN  [ok |-> r.ok, text |-> <<c>> \o r.text]
             ELSE IF c >= 161 /\ c <= 223
             THEN LET r == SjisDecode(Tail(b))
                  IN  [ok |-> r.ok, text |-> <<c + 65216>> \o r.text]
             ELSE IF IsLead(c) /\ Len(b) >= 2 /\ IsTrail(b[2])
             THEN LET r == SjisDecode(Tail(Tail(b)))
                  IN  [ok |-> r.ok, text |-> <<65536 + 256 * c + b[2]>> \o r.text]
             ELSE [ok |-> FALSE, text |-> <<>>]

\* vmdStr: the text before the first NUL of a fixed-width buffer.
vmdStrLenient(s) ==
    LET i == IndexOfNul(s)
        d == SjisDecode(IF i < 0 THEN s ELSE SubSeq(s, 1, i))
    IN  IF ~d.ok THEN [err |-> "UnicodeDecodeError", text |-> <<>>]
        ELSE [err |-> "none", text |-> d.text]
vmdStr(s) ==
    LET i == IndexOfNul(s)
        d == SjisDecode(SubSeq(s, 1, i))
    IN  IF i < 0 THEN [err |-> "ValueError", text |-> <<>>]
        ELSE IF ~d.ok THEN [err |-> "UnicodeDecodeError", text |-> <<>>]
        ELSE [err |-> "none", text |-> d.text]

\* str.startswith
StartsWithAny(s, prefix) == TRUE
StartsWith(s, prefix) ==
    Len(s) >= Len(prefix) /\ SubSeq(s, 1, Len(prefix)) = prefix

\* "Vocaloid Motion Data"
Signature ==
    <<86, 111, 99, 97, 108, 111, 105, 100, 32, 77, 111, 116, 105, 111, 110,
      32, 68, 97, 116, 97>>

\* dict.get(name, name)
MapGet(map, name) == IF name \in DOMAIN map THEN map[name] ELSE name

\* --------------------------------------------------------------- mathutils
\* mathutils.Vector( (tx, tz, ty) ): the file's Y and Z axes are swapped.
LocationNoSwap(tx, ty, tz) == <<tx, ty, tz>>
Location(tx, ty, tz) == <<tx, tz, ty>>

\* mathutils.Quaternion( (rw, -rx, -rz, -ry) )
FileQuat(rx, ry, rz, rw) == <<rw, 0 - rx, 0 - rz, 0 - ry>>

\* Quaternion.conjugated()
Conjugated(q) == <<q[1], 0 - q[2], 0 - q[3], 0 - q[4]>>

\* Quaternion * Quaternion
QMul(a, b) ==
    << a[1] * b[1] - a[2] * b[2] - a[3] * b[3] - a[4] * b[4],
       a[1] * b[2] + a[2] * b[1] + a[3] * b[4] - a[4] * b[3],
       a[1] * b[3] - a[2] * b[4] + a[3] * b[1] + a[4] * b[2],
       a[1] * b[4] + a[2] * b[3] - a[3] * b[2] + a[4] * b[1] >>

\* baseRot[name].conjugated() * Quaternion(...) * baseRot[name]
BoneRotation(base, rx, ry, rz, rw) ==
    QMul(QMul(Conjugated(base), FileQuat(rx, ry, rz, rw)), base)

\* frame += offset
EffectiveFrameNoOffset(frame, off) == frame
EffectiveFrame(frame, off) == frame + off

\* keyframe_insert( path, frame = frame ): the keyframe of `path` at `frame`
\* takes the current value, replacing one already there.
KeyframeInsert(keys, name, path, frame, value) ==
    [k \in DOMAIN keys \cup {<<name, path, frame>>} |->
        IF k = <<name, path, frame>> THEN value ELSE keys[k]]

\* ------------------------------------------------------------------ inputs
\* Encoders that build the input files (the inverse layout of Unpack).
U32Bytes(n) ==
    <<n % 256, (n \div 256) % 256, (n \div 65536) % 256, n \div 16777216>>

F32Bytes(n) ==
    IF n = 0 THEN <<0, 0, 0, 0>>
    ELSE LET a  == IF n < 0 THEN 0 - n ELSE n
             e  == IF a = 1 THEN 0 ELSE IF a <= 3 THEN 1 ELSE 2
             m  == (a - 2^e) * 2^(23 - e)
             ex == e + 127
         IN  << m % 256, (m \div 256) % 256,
                (ex % 2) * 128 + (m \div 65536),
                (IF n < 0 THEN 128 ELSE 0) + (ex \div 2) >>

NameBuf(b, width) == b \o Zeros(width - Len(b))

TxtCenter == <<99, 101, 110, 116, 101, 114>>      \* "center"
TxtHead   == <<104, 101, 97, 100>>                \* "head"
TxtSmile  == <<115, 109, 105, 108, 101>>          \* "smile"
TxtA      == <<97>>                               \* "a"
SjisSe    == <<131, 90>>                          \* one two-byte character
SjisBad   == <<128>>                              \* not valid Shift-JIS

\* Bone records of the input files: name bytes, frame, translation, rotation.
\* The names: one the armature has, one it has only through the name map,
\* one without a NUL in its 15 bytes, one that is not valid Shift-JIS.
BoneRecs ==
    { [name |-> TxtCenter, frame |-> 10, t |-> <<1, 2, 3>>, r |-> <<0, 0, 0, 1>>],
      [name |-> SjisSe, frame |-> 20, t |-> <<2, 0, -1>>, r |-> <<1, 0, 0, 0>>],
      [name |-> [k \in 1..15 |-> 120], frame |-> 30, t |-> <<0, 1, 0>>,
       r |-> <<0, 0, 0, 1>>],
      [name |-> SjisBad, frame |-> 1, t |-> <<0, 0, 0>>, r |-> <<0, 0, 0, 1>>] }

\* Morph records of the input files: name bytes, frame, weight.
FaceRecs ==
    { [name |-> TxtSmile, frame |-> 12, value |-> 1],
      [name |-> SjisSe, frame |-> 25, value |-> 0],
      [name |-> [k \in 1..15 |-> 120], frame |-> 40, value |-> 1] }

PackBone(b) ==
    NameBuf(b.name, 15) \o U32Bytes(b.frame)
      \o F32Bytes(b.t[1]) \o F32Bytes(b.t[2]) \o F32Bytes(b.t[3])
      \o F32Bytes(b.r[1]) \o F32Bytes(b.r[2]) \o F32Bytes(b.r[3])
      \o F32Bytes(b.r[4]) \o [k \in 1..64 |-> 20]

PackFace(f) == NameBuf(f.name, 15) \o U32Bytes(f.frame) \o F32Bytes(f.value)

\* 30-byte magic fields: the usual one, a foreign one, an empty one, and one
\* that starts with the signature but has no NUL within its width.
Magics ==
    { NameBuf(Signature \o <<32, 48, 48, 48, 50>>, 30),
      NameBuf(<<78, 79, 84, 32, 86, 77, 68>>, 30),
      Zeros(30),
      Signature \o [k \in 1..10 |-> 120] }

\* 20-byte model names, with and without a NUL.
ModelNames == { NameBuf(TxtCenter, 20), [k \in 1..20 |-> 120] }

HeaderInputs == { m \o n : m \in Magics, n \in ModelNames }
CountInputs  == { U32Bytes(n) : n \in 0..MaxRecs }
BoneInputs   == { PackBone(b) : b \in BoneRecs }
FaceInputs   == { PackFace(f) : f \in FaceRecs }

\* caller-supplied frame offsets
Offsets == {0, 5}

\* scene.frame_end before the first import
SceneFrameEnds == {12}

\* the sequences of at most n elements of S
SeqsUpTo(S, n) == UNION { [1..k -> S] : k \in 0..n }

HasNoNul(buf) == \A k \in 1..Len(buf) : buf[k] # 0

\* the largest frame field of a sequence of records, 0 for none
RECURSIVE MaxFrameOf(_)
MaxFrameOf(recs) ==
    IF recs = <<>> THEN 0
    ELSE LET m == MaxFrameOf(Tail(recs))
         IN  IF Head(recs).frame >= m THEN Head(recs).frame ELSE m

\* ------------------------------------------------------- name maps, targets
\* boneNameMap / faceNameMap when meshio's englishmap is importable.
EnglishBoneMap == (SjisDecode(SjisSe).text :> TxtHead)
EnglishFaceMap == (SjisDecode(SjisSe).text :> TxtA)
EmptyMap == [x \in {} |-> x]

\* The armature: obj.pose.bones / obj.data.bones by name, with the rest
\* rotation b.matrix_local.to_quaternion() of each.
baseRot == (TxtCenter :> <<1, 0, 0, 0>>) @@ (TxtHead :> <<0, 1, 0, 0>>)

\* The mesh: the names of obj.data.shape_keys.key_blocks.
KeyBlocks == {TxtSmile}

\* ------------------------------------------------------------------- state
VARIABLES
    boneNameMap,   \* module-level dict, fixed when the module is loaded
    faceNameMap,   \* module-level dict, fixed when the module is loaded
    frame_end,     \* bpy.context.scene.frame_end
    pose,          \* armature: bone name -> [location, rotation_quaternion]
    boneKeys,      \* armature: <<bone name, data path, frame>> -> keyframe value
    blockValue,    \* mesh: key block name -> value
    faceKeys,      \* mesh: <<key block name, "value", frame>> -> keyframe value
    pc,            \* where the current importVmd call stands
    err,           \* the exception that ended the call, "none" otherwise
    calls,         \* number of importVmd calls made
    bone,          \* importVmd argument: is an armature bound?
    face,          \* importVmd argument: is a mesh with shape keys bound?
    offset,        \* importVmd argument
    pos,           \* ofs: the file position
    eof,           \* ofs: the file ends before the bytes its format requires
    magic,         \* importVmd local: the decoded magic
    boneSize,      \* `size` of importVmdBone / skipVmdBone
    faceSize,      \* `size` of importVmdFace / skipVmdFace
    i,             \* number of loop iterations completed in the current section
    rec,           \* the tuple last returned by readPacked inside a loop
    frameEnd,      \* `frameEnd` of importVmdBone / importVmdFace
    fe0,           \* importVmd local
    fe1,           \* importVmd local
    fileBoneMax,   \* the file: largest frame field of the bone records consumed
    fileFaceMax,   \* the file: largest frame field of the morph records consumed
    fileNoNul      \* the file: a magic or record name consumed so far has no NUL

vars ==
    <<boneNameMap, faceNameMap, frame_end, pose, boneKeys, blockValue, faceKeys,
      pc, err, calls, bone, face, offset, pos, eof, magic, boneSize, faceSize,
      i, rec, frameEnd, fe0, fe1, fileBoneMax, fileFaceMax, fileNoNul>>

maps    == <<boneNameMap, faceNameMap>>
targets == <<pose, boneKeys, blockValue, faceKeys>>
args    == <<bone, face, offset, calls>>
ghosts  == <<fileBoneMax, fileFaceMax, fileNoNul>>

EmptyKeys == [k \in {} |-> 0]

Init ==
    /\ \/ boneNameMap = EnglishBoneMap /\ faceNameMap = EnglishFaceMap
       \/ boneNameMap = EmptyMap /\ faceNameMap = EmptyMap
    /\ frame_end \in SceneFrameEnds
    /\ pose = [n \in DOMAIN baseRot |->
                 [location |-> <<0, 0, 0>>, rotation_quaternion |-> <<1, 0, 0, 0>>]]
    /\ boneKeys = EmptyKeys
    /\ blockValue = [n \in KeyBlocks |-> 0]
    /\ faceKeys = EmptyKeys
    /\ pc = "idle" /\ err = "none" /\ calls = 0
    /\ bone = FALSE /\ face = FALSE /\ offset = 0
    /\ pos = 0 /\ eof = FALSE /\ magic = <<>>
    /\ boneSize = 0 /\ faceSize = 0 /\ i = 0 /\ rec = <<>>
    /\ frameEnd = 0 /\ fe0 = 0 /\ fe1 = 0
    /\ fileBoneMax = 0 /\ fileFaceMax = 0 /\ fileNoNul = FALSE

\* ------------------------------------------------------------------ stream
\* ofs.read(n): the n bytes at the file position (one of `full`), or fewer
\* when the file ends there (at the position itself, or one byte short of
\* n); nothing once the file has ended.
OfsRead(n, full) ==
    IF eof THEN { <<>> }
    ELSE full \cup { SubSeq(d, 1, k) : d \in full, k \in {0, n - 1} }

\* a raised exception ends the call
RaiseSwallowed(e) == pc' = pc /\ err' = err
Raise(e) == pc' = "failed" /\ err' = e

\* ----------------------------------------------------------------- actions
\* VmdImporter.execute opens the file and calls importVmd.
Call ==
    /\ pc \in {"idle", "done", "failed"}
    /\ calls < MaxImports
    /\ calls' = calls + 1
    /\ bone' \in BOOLEAN /\ face' \in BOOLEAN /\ offset' \in Offsets
    /\ pc' = "header" /\ err' = "none"
    /\ pos' = 0 /\ eof' = FALSE /\ magic' = <<>>
    /\ boneSize' = 0 /\ faceSize' = 0 /\ i' = 0 /\ rec' = <<>>
    /\ frameEnd' = 0 /\ fe0' = 0 /\ fe1' = 0
    /\ fileBoneMax' = 0 /\ fileFaceMax' = 0 /\ fileNoNul' = FALSE
    /\ UNCHANGED <<maps, frame_end, targets>>

\* importVmd, lines 101-105: the header.
ReadHeader ==
    /\ pc = "header"
    /\ \E data \in OfsRead(CalcSize(FmtHeader), HeaderInputs) :
         LET r == ReadPacked(FmtHeader, data)
             m == vmdStr(r.val[1])
         IN  /\ pos' = pos + Len(data)
             /\ eof' = (eof \/ Len(data) < CalcSize(FmtHeader))
             /\ IF r.err # "none"
                THEN Raise(r.err) /\ UNCHANGED <<magic, fileNoNul>>
                ELSE /\ fileNoNul' = HasNoNul(r.val[1])
                     /\ IF m.err # "none"
                        THEN Raise(m.err) /\ UNCHANGED magic
                        ELSE /\ magic' = m.text
                             /\ IF ~StartsWith(m.text, Signature)
                                THEN Raise("IOError")
                                ELSE /\ pc' = IF bone THEN "bone" ELSE "skip_bone"
                                     /\ err' = err
    /\ UNCHANGED <<maps, frame_end, targets, args, boneSize, faceSize, i, rec,
                   frameEnd, fe0, fe1, fileBoneMax, fileFaceMax>>

\* importVmdBone, lines 50-53: the record count.
ImportVmdBoneCount ==
    /\ pc = "bone"
    /\ \E data \in OfsRead(CalcSize(FmtU32), CountInputs) :
         LET r == ReadPacked(FmtU32, data)
         IN  /\ pos' = pos + Len(data)
             /\ eof' = (eof \/ Len(data) < CalcSize(FmtU32))
             /\ IF r.err # "none"
                THEN Raise(r.err) /\ UNCHANGED <<boneSize, frameEnd>>
                ELSE /\ boneSize' = r.val[1]
                     /\ frameEnd' = offset
                     /\ pc' = "bone_loop" /\ err' = err
    /\ i' = 0
    /\ UNCHANGED <<maps, frame_end, targets, args, magic, faceSize, rec,
                   fe0, fe1, ghosts>>

\* importVmdBone, lines 54-71: one iteration of the loop.
ImportVmdBoneRecord ==
    /\ pc = "bone_loop" /\ i < boneSize
    /\ \E data \in OfsRead(CalcSize(FmtBone), BoneInputs) :
         LET r     == ReadPacked(FmtBone, data)
             s     == vmdStr(r.val[1])
             name  == MapGet(boneNameMap, s.text)
             frame == EffectiveFrame(r.val[2], offset)
         IN  /\ pos' = pos + Len(data)
             /\ eof' = (eof \/ Len(data) < CalcSize(FmtBone))
             /\ IF r.err # "none"
                THEN /\ Raise(r.err)
                     /\ UNCHANGED <<rec, pose, boneKeys, frameEnd, i, ghosts>>
                ELSE /\ rec' = r.val
                     /\ fileBoneMax' = IF r.val[2] > fileBoneMax THEN r.val[2] ELSE fileBoneMax
                     /\ fileNoNul' = (fileNoNul \/ HasNoNul(r.val[1]))
                     /\ UNCHANGED fileFaceMax
                     /\ IF s.err # "none"
                        THEN /\ Raise(s.err)
                             /\ UNCHANGED <<pose, boneKeys, frameEnd, i>>
                        ELSE /\ IF name \in DOMAIN pose
                                THEN LET loc == Location(r.val[3], r.val[4], r.val[5])
                                         rot == BoneRotation(baseRot[name], r.val[6],
                                                   r.val[7], r.val[8], r.val[9])
                                     IN  /\ pose' = [pose EXCEPT ![name] =
                                                [location |-> loc,
                                                 rotation_quaternion |-> rot]]
                                         /\ boneKeys' = KeyframeInsert(
                                                KeyframeInsert(boneKeys, name,
                                                    "location", frame, loc),
                                                name, "rotation_quaternion", frame, rot)
                                ELSE UNCHANGED <<pose, boneKeys>>
                             /\ frameEnd' = Max2(frameEnd, frame)
                             /\ i' = i + 1
                             /\ UNCHANGED <<pc, err>>
    /\ UNCHANGED <<maps, frame_end, blockValue, faceKeys, args, magic, boneSize,
                   faceSize, fe0, fe1>>

\* importVmdBone, line 73, and importVmd, line 108: the loop is over; the
\* decoder's locals go out of scope.
ImportVmdBoneReturnEager ==
    /\ pc = "bone_loop" /\ i = boneSize
    /\ fe0' = frameEnd
    /\ frame_end' = Max2(frame_end, frameEnd)
    /\ pc' = IF face THEN "face" ELSE "skip_face"
    /\ i' = 0 /\ rec' = <<>> /\ frameEnd' = 0
    /\ UNCHANGED <<maps, targets, err, args, pos, eof, magic, boneSize,
                   faceSize, fe1, ghosts>>
ImportVmdBoneReturn ==
    /\ pc = "bone_loop" /\ i = boneSize
    /\ fe0' = frameEnd
    /\ pc' = IF face THEN "face" ELSE "skip_face"
    /\ i' = 0 /\ rec' = <<>> /\ frameEnd' = 0
    /\ UNCHANGED <<maps, frame_end, targets, err, args, pos, eof, magic, boneSize,
                   faceSize, fe1, ghosts>>

\* skipVmdBone and importVmd, lines 110-111.  The seek moves the position
\* whether or not the file holds the records: `recs` are those it holds.
SkipVmdBone ==
    /\ pc = "skip_bone"
    /\ \E data \in OfsRead(CalcSize(FmtU32), CountInputs) :
         LET r == ReadPacked(FmtU32, data)
         IN  IF r.err # "none"
             THEN /\ Raise(r.err)
                  /\ pos' = pos + Len(data)
                  /\ eof' = (eof \/ Len(data) < CalcSize(FmtU32))
                  /\ UNCHANGED <<boneSize, fe0, ghosts>>
             ELSE \E recs \in SeqsUpTo(BoneRecs, r.val[1]) :
                  /\ boneSize' = r.val[1]
                  /\ pos' = pos + Len(data) + CalcSize(FmtBoneSkip) * r.val[1]
                  /\ eof' = (Len(recs) < r.val[1])
                  /\ fe0' = offset
                  /\ fileBoneMax' = MaxFrameOf(recs)
                  /\ fileNoNul' = (fileNoNul \/
                        \E k \in 1..Len(recs) : HasNoNul(NameBuf(recs[k].name, 15)))
                  /\ UNCHANGED fileFaceMax
                  /\ pc' = IF face THEN "face" ELSE "skip_face"
                  /\ err' = err
    /\ UNCHANGED <<maps, frame_end, targets, args, magic, faceSize, i, rec,
                   frameEnd, fe1>>

\* importVmdFace, lines 80-81: the record count.
ImportVmdFaceCount ==
    /\ pc = "face"
    /\ \E data \in OfsRead(CalcSize(FmtU32), CountInputs) :
         LET r == ReadPacked(FmtU32, data)
         IN  /\ pos' = pos + Len(data)
             /\ eof' = (eof \/ Len(data) < CalcSize(FmtU32))
             /\ IF r.err # "none"
                THEN Raise(r.err) /\ UNCHANGED <<faceSize, frameEnd>>
                ELSE /\ faceSize' = r.val[1]
                     /\ frameEnd' = offset
                     /\ pc' = "face_loop" /\ err' = err
    /\ i' = 0
    /\ UNCHANGED <<maps, frame_end, targets, args, magic, boneSize, rec,
                   fe0, fe1, ghosts>>

\* importVmdFace, lines 82-92: one iteration of the loop.
ImportVmdFaceRecord ==
    /\ pc = "face_loop" /\ i < faceSize
    /\ \E data \in OfsRead(CalcSize(FmtFace), FaceInputs) :
         LET r     == ReadPacked(FmtFace, data)
             s     == vmdStr(r.val[1])
             name  == MapGet(faceNameMap, s.text)
             frame == EffectiveFrame(r.val[2], offset)
         IN  /\ pos' = pos + Len(data)
             /\ eof' = (eof \/ Len(data) < CalcSize(FmtFace))
             /\ IF r.err # "none"
                THEN /\ Raise(r.err)
                     /\ UNCHANGED <<rec, blockValue, faceKeys, frameEnd, i, ghosts>>
                ELSE /\ rec' = r.val
                     /\ fileFaceMax' = IF r.val[2] > fileFaceMax THEN r.val[2] ELSE fileFaceMax
                     /\ fileNoNul' = (fileNoNul \/ HasNoNul(r.val[1]))
                     /\ UNCHANGED fileBoneMax
                     /\ IF s.err # "none"
                        THEN /\ Raise(s.err)
                             /\ UNCHANGED <<blockValue, faceKeys, frameEnd, i>>
                        ELSE /\ IF name \in DOMAIN blockValue
                                THEN /\ blockValue' =
                                          [blockValue EXCEPT ![name] = r.val[3]]
                                     /\ faceKeys' = KeyframeInsert(faceKeys, name,
                                                       "value", frame, r.val[3])
                                ELSE UNCHANGED <<blockValue, faceKeys>>
                             /\ frameEnd' = Max2(frameEnd, frame)
                             /\ i' = i + 1
                             /\ UNCHANGED <<pc, err>>
    /\ UNCHANGED <<maps, frame_end, pose, boneKeys, args, magic, boneSize,
                   faceSize, fe0, fe1>>

\* importVmdFace, line 94, and importVmd, line 114: the loop is over; the
\* decoder's locals go out of scope.
ImportVmdFaceReturn ==
    /\ pc = "face_loop" /\ i = faceSize
    /\ fe1' = frameEnd
    /\ pc' = "finish"
    /\ i' = 0 /\ rec' = <<>> /\ frameEnd' = 0
    /\ UNCHANGED <<maps, frame_end, targets, err, args, pos, eof, magic, boneSize,
                   faceSize, fe0, ghosts>>

\* skipVmdFace and importVmd, lines 116-117.
SkipVmdFace ==
    /\ pc = "skip_face"
    /\ \E data \in OfsRead(CalcSize(FmtU32), CountInputs) :
         LET r == ReadPacked(FmtU32, data)
         IN  IF r.err # "none"
             THEN /\ Raise(r.err)
                  /\ pos' = pos + Len(data)
                  /\ eof' = (eof \/ Len(data) < CalcSize(FmtU32))
                  /\ UNCHANGED <<faceSize, fe1, ghosts>>
             ELSE \E recs \in SeqsUpTo(FaceRecs, r.val[1]) :
                  /\ faceSize' = r.val[1]
                  /\ pos' = pos + Len(data) + CalcSize(FmtFaceSkip) * r.val[1]
                  /\ eof' = (Len(recs) < r.val[1])
                  /\ fe1' = offset
                  /\ fileFaceMax' = MaxFrameOf(recs)
                  /\ fileNoNul' = (fileNoNul \/
                        \E k \in 1..Len(recs) : HasNoNul(NameBuf(recs[k].name, 15)))
                  /\ UNCHANGED fileBoneMax
                  /\ pc' = "finish"
                  /\ err' = err
    /\ UNCHANGED <<maps, frame_end, targets, args, magic, boneSize, i, rec,
                   frameEnd, fe0>>

\* importVmd, line 119, and the return to execute, which closes the file:
\* the call's locals and the stream are gone.
Finish ==
    /\ pc = "finish"
    /\ frame_end' = Max3(fe0, fe1, frame_end)
    /\ pc' = "done"
    /\ pos' = 0 /\ eof' = FALSE /\ magic' = <<>>
    /\ boneSize' = 0 /\ faceSize' = 0 /\ fe0' = 0 /\ fe1' = 0
    /\ fileBoneMax' = 0 /\ fileFaceMax' = 0 /\ fileNoNul' = FALSE
    /\ UNCHANGED <<maps, targets, err, args, i, rec, frameEnd>>

Next ==
    \/ Call
    \/ ReadHeader
    \/ ImportVmdBoneCount
    \/ ImportVmdBoneRecord
    \/ ImportVmdBoneReturn
    \/ SkipVmdBone
    \/ ImportVmdFaceCount
    \/ ImportVmdFaceRecord
    \/ ImportVmdFaceReturn
    \/ SkipVmdFace
    \/ Finish

Spec == Init /\ [][Next]_vars

\* The shape of the control state.
TypeOK ==
    /\ pc \in {"idle", "header", "bone", "bone_loop", "skip_bone", "face",
               "face_loop", "skip_face", "finish", "done", "failed"}
    /\ err \in {"none", "struct.error", "ValueError", "UnicodeDecodeError", "IOError"}
    /\ (pc = "failed") = (err # "none")
    /\ calls \in 0..MaxImports

\* ------------------------------------------------------------------ claims
\* The largest element of a finite non-empty set of integers.
Largest(S) == CHOOSE m \in S : \A x \in S : m >= x

\* s begins with "Vocaloid Motion Data".
HasSignature(s) ==
    /\ Len(s) >= Len(Signature)
    /\ \A k \in 1..Len(Signature) : s[k] = Signature[k]

\* The names the decoders look up for a 15-byte name field.
ResolvedBone(buf) == MapGet(boneNameMap, vmdStr(buf).text)
ResolvedFace(buf) == MapGet(faceNameMap, vmdStr(buf).text)

\* This step read a whole bone / morph record (111 / 23 bytes) into rec'.
ReadsBoneRecord == pc = "bone_loop" /\ pos' = pos + 111
ReadsFaceRecord == pc = "face_loop" /\ pos' = pos + 23

\* The call has consumed both sections of a complete file and is about to
\* publish its result.
Completed == pc = "finish" /\ ~eof

\* C1 as stated: for a well-formed file and offset 0 the maximum frame of the
\* import, max(fe0, fe1), is the largest frame field of all bone and morph
\* records of the file, whatever targets are bound.
C1_AllRecords ==
    (Completed /\ offset = 0) =>
        /\ Largest({fe0, fe1}) >= 0
        /\ Largest({fe0, fe1}) = Largest({fileBoneMax, fileFaceMax})

\* C1 amended: for a well-formed file and offset 0 the maximum frame of the
\* import is non-negative and is the largest frame field of the records of
\* the sections whose target is bound (0 when there is none).
C1_BoundRecords ==
    (Completed /\ offset = 0) =>
        /\ Largest({fe0, fe1}) >= 0
        /\ Largest({fe0, fe1}) =
              Largest({IF bone THEN fileBoneMax ELSE 0,
                       IF face THEN fileFaceMax ELSE 0})

\* A complete file, offset 0, bones bound and morphs not, whose skipped
\* morph records hold the largest frame of the file.
C1_Witness ==
    /\ Completed /\ offset = 0 /\ bone /\ ~face
    /\ fileBoneMax > 0 /\ fileFaceMax > fileBoneMax
    /\ fe0 = fileBoneMax

\* C2: a magic that does not decode to text starting with the signature ends
\* the call in the header step, at most 50 bytes into the stream (exactly 50
\* when the check itself fails), with no keyframe written; a failed call
\* takes no further step, so no count and no record is read.
C2_InvalidHeader ==
    [][ /\ (pc = "header" /\ ~HasSignature(magic')) =>
              /\ pc' = "failed"
              /\ pos' <= 50
              /\ boneSize' = 0 /\ faceSize' = 0
              /\ UNCHANGED <<pose, boneKeys, blockValue, faceKeys>>
        /\ (pc = "header" /\ err' = "IOError") => pos' = 50
        /\ (pc = "failed") =>
              /\ pc' = "header" /\ pos' = 0
              /\ UNCHANGED <<pose, boneKeys, blockValue, faceKeys>>
      ]_vars

\* A call with both targets bound that failed the signature check.
C2_Witness ==
    /\ pc = "failed" /\ err = "IOError" /\ pos = 50
    /\ bone /\ face /\ magic # <<>> /\ ~HasSignature(magic)

\* C3 as stated: a call whose stream ended before the bytes the format
\* requires never completes.
C3_TruncationFatal == ~(pc = "finish" /\ eof)

\* C4: a bone or morph record whose resolved name the bound target lacks
\* writes nothing; a bound section returns max(offset, largest frame +
\* offset) over all its records; an unbound section writes nothing and
\* returns offset.
C4_Unmatched ==
    [][ /\ (ReadsBoneRecord /\ pc' = "bone_loop"
               /\ ResolvedBone(rec'[1]) \notin DOMAIN baseRot) =>
              /\ UNCHANGED <<pose, boneKeys, blockValue, faceKeys>>
              /\ i' = i + 1
        /\ (ReadsFaceRecord /\ pc' = "face_loop"
               /\ ResolvedFace(rec'[1]) \notin KeyBlocks) =>
              /\ UNCHANGED <<pose, boneKeys, blockValue, faceKeys>>
              /\ i' = i + 1
        /\ (pc = "bone_loop" /\ pc' \in {"face", "skip_face"}) =>
              fe0' = Largest({offset, fileBoneMax + offset})
        /\ (pc = "face_loop" /\ pc' = "finish") =>
              fe1' = Largest({offset, fileFaceMax + offset})
        /\ (pc = "skip_bone" /\ pc' # "failed") =>
              fe0' = offset /\ UNCHANGED <<pose, boneKeys, blockValue, faceKeys>>
        /\ (pc = "skip_face" /\ pc' # "failed") =>
              fe1' = offset /\ UNCHANGED <<pose, boneKeys, blockValue, faceKeys>>
      ]_vars

\* A bound bone section of two records, none matched: nothing written, and
\* the section's max frame is beyond the offset.
C4_Witness ==
    /\ pc \in {"face", "skip_face"} /\ bone /\ boneSize = 2
    /\ boneKeys = EmptyKeys /\ fe0 = fileBoneMax + offset /\ fe0 > offset

\* C5: scene.frame_end never decreases; it changes only in the last step of
\* a successful import, which sets it to max(fe0, fe1, previous value), where
\* fe0 and fe1 are at least the offset.
C5_EndFrameMonotone ==
    [][ /\ frame_end' >= frame_end
        /\ (pc = "finish") =>
              /\ pc' = "done"
              /\ fe0 >= offset /\ fe1 >= offset
              /\ frame_end' = Largest({fe0, fe1, frame_end})
              /\ frame_end' >= Largest({fe0, fe1, offset})
      ]_vars

\* A second import whose frames all lie below the end frame the first one
\* left behind.
C5_Witness ==
    /\ calls = 2 /\ pc = "finish"
    /\ frame_end > 12 /\ frame_end > Largest({fe0, fe1})

\* C6 as stated: once a magic or record name without a NUL has been
\* consumed, in a decoded or in a skipped section, the call has failed.
C6_NoNulAlwaysFatal == fileNoNul => pc = "failed"

\* C6 amended: a magic without a NUL, or a record name without a NUL in a
\* section that is decoded (its target bound), fails the call at that field
\* with nothing written for the record, matched or not; a failed call takes
\* no further step.  A skipped section's names are not examined.
C6_NoNulFatalWhenDecoded ==
    [][ /\ (pc = "header" /\ fileNoNul') =>
              pc' = "failed" /\ err' = "ValueError"
        /\ ((ReadsBoneRecord \/ ReadsFaceRecord)
               /\ \A k \in 1..15 : rec'[1][k] # 0) =>
              /\ pc' = "failed" /\ err' = "ValueError"
              /\ i' = i /\ frameEnd' = frameEnd
              /\ UNCHANGED <<pose, boneKeys, blockValue, faceKeys>>
        /\ (pc = "failed") => pc' = "header"
      ]_vars

\* The second record of a bound bone section has a name without a NUL.
C6_Witness ==
    /\ pc = "failed" /\ err = "ValueError" /\ bone /\ boneSize = 2 /\ i = 1
    /\ fe0 = 0 /\ rec # <<>> /\ \A k \in 1..15 : rec[1][k] # 0

\* C7: a bone record whose resolved name the armature has is keyed at
\* frame + offset with location (tx, tz, ty), a morph record whose resolved
\* name the mesh has at frame + offset with its weight, and no other
\* keyframe changes; the record 'center', frame 10, translation (1,2,3),
\* with offset 5 is keyed at frame 15 with location (1,3,2), and alone in
\* its file it makes the import's maximum frame 15.
C7_KeyframeValues ==
    [][ /\ (ReadsBoneRecord /\ pc' = "bone_loop"
               /\ ResolvedBone(rec'[1]) \in DOMAIN baseRot) =>
              LET key == <<ResolvedBone(rec'[1]), "location", rec'[2] + offset>>
                  rot == <<ResolvedBone(rec'[1]), "rotation_quaternion",
                           rec'[2] + offset>>
              IN  /\ key \in DOMAIN boneKeys'
                  /\ boneKeys'[key] = <<rec'[3], rec'[5], rec'[4]>>
                  /\ \A k \in DOMAIN boneKeys' \ {key, rot} :
                        k \in DOMAIN boneKeys /\ boneKeys'[k] = boneKeys[k]
                  /\ faceKeys' = faceKeys
        /\ (ReadsFaceRecord /\ pc' = "face_loop"
               /\ ResolvedFace(rec'[1]) \in KeyBlocks) =>
              LET key == <<ResolvedFace(rec'[1]), "value", rec'[2] + offset>>
              IN  /\ key \in DOMAIN faceKeys'
                  /\ faceKeys'[key] = rec'[3]
                  /\ \A k \in DOMAIN faceKeys' \ {key} :
                        k \in DOMAIN faceKeys /\ faceKeys'[k] = faceKeys[k]
                  /\ boneKeys' = boneKeys
        /\ (ReadsBoneRecord /\ pc' = "bone_loop" /\ offset = 5
               /\ SubSeq(rec'[1], 1, 7) = TxtCenter \o <<0>>
               /\ SubSeq(rec', 2, 5) = <<10, 1, 2, 3>>) =>
              /\ <<TxtCenter, "location", 15>> \in DOMAIN boneKeys'
              /\ boneKeys'[<<TxtCenter, "location", 15>>] = <<1, 3, 2>>
        /\ (pc = "finish" /\ offset = 5 /\ bone /\ boneSize = 1
               /\ fileBoneMax = 10 /\ faceSize = 0) =>
              /\ Largest({fe0, fe1}) = 15
              /\ frame_end' = Largest({15, frame_end})
      ]_vars

\* The file of the example has been imported with offset 5: the keyframe is
\* at frame 15 with location (1,3,2) and identity rotation.
C7_Witness ==
    /\ pc = "finish" /\ calls = 1 /\ offset = 5 /\ bone /\ boneSize = 1
    /\ fileBoneMax = 10 /\ faceSize = 0 /\ Largest({fe0, fe1}) = 15
    /\ boneKeys = (<<TxtCenter, "location", 15>> :> <<1, 3, 2>>)
                  @@ (<<TxtCenter, "rotation_quaternion", 15>> :> <<1, 0, 0, 0>>)

\* C8 as stated: past a skipped section the stream stands 4 + count * 91
\* (bones) and 4 + count * 19 (morphs) bytes further.
C8_SkipBy91And19 ==
    /\ (pc \in {"face", "skip_face"} /\ ~bone) => pos = 50 + 4 + boneSize * 91
    /\ (pc = "finish" /\ ~bone /\ ~face) =>
          pos = 50 + 4 + boneSize * 91 + 4 + faceSize * 19

\* C8 amended: past a section the stream stands 4 + count * 111 (bones) and
\* 4 + count * 23 (morphs) bytes further, whether the section was skipped or
\* decoded to its end, so the morph section starts at the same position
\* either way.
C8_SkipBy111And23 ==
    /\ (pc \in {"face", "skip_face"}) => pos = 50 + 4 + boneSize * 111
    /\ (pc = "finish") => pos = 50 + 4 + boneSize * 111 + 4 + faceSize * 23

\* Two bone records have been skipped.
C8_Witness ==
    /\ pc \in {"face", "skip_face"} /\ ~bone /\ boneSize = 2 /\ pos = 276 /\ ~eof

\* C9: keyframes are never removed; bone keyframes are written only in the
\* bone loop and morph keyframes only in the morph loop, which starts after
\* the bone section; a bone record that is cut short or whose name has no
\* NUL fails the call and writes nothing, and a failed call takes no
\* further step: later records and the morph section are never read.
C9_NoRollback ==
    [][ /\ \A k \in DOMAIN boneKeys : k \in DOMAIN boneKeys'
        /\ \A k \in DOMAIN faceKeys : k \in DOMAIN faceKeys'
        /\ (boneKeys' # boneKeys) => pc = "bone_loop"
        /\ (faceKeys' # faceKeys) => pc = "face_loop"
        /\ (pc' \in {"face", "skip_face"} /\ pc' # pc) =>
              pc \in {"bone_loop", "skip_bone"}
        /\ (pc = "bone_loop" /\ i < boneSize
               /\ (eof' \/ \A k \in 1..15 : rec'[1][k] # 0)) =>
              /\ pc' = "failed" /\ i' = i
              /\ UNCHANGED <<pose, boneKeys, blockValue, faceKeys>>
        /\ (pc = "failed") =>
              /\ pc' = "header" /\ pos' = 0
              /\ UNCHANGED <<pose, boneKeys, blockValue, faceKeys>>
      ]_vars

\* The first call failed at the second of two bone records, after the first
\* one was keyed; no morph keyframe exists.
C9_Witness ==
    /\ pc = "failed" /\ calls = 1 /\ bone /\ boneSize = 2 /\ i = 1 /\ fe0 = 0
    /\ boneKeys # EmptyKeys /\ faceKeys = EmptyKeys

\* C10: scene.frame_end changes only in the step that completes a
\* successful import; a step that fails the call leaves it alone, whatever
\* was keyed before.
C10_EndFrameOnSuccessOnly ==
    [][ /\ (frame_end' # frame_end) => (pc = "finish" /\ pc' = "done")
        /\ (pc' = "failed") => frame_end' = frame_end
      ]_vars

\* The first call failed after keying a frame beyond the scene's end frame.
C10_Witness ==
    /\ pc = "failed" /\ calls = 1 /\ frame_end = 12
    /\ \E k \in DOMAIN boneKeys \cup DOMAIN faceKeys : k[3] > frame_end

====
